---- MODULE Spec2Model ----
(***************************************************************************)
(* A model of price_scraper.py: the FX helper get_currency_rate, the       *)
(* paginated collector scrape_books, the normaliser convert_prices and the *)
(* pipeline main.                                                          *)
(*                                                                         *)
(* Units.  Prices are integers: price_gbp in pence, price_usd in US cents, *)
(* price_converted in hundredths of the target currency.  A USD->target    *)
(* rate is an integer number of hundredths (129.28 is 12928), the          *)
(* composite rate is in ten-thousandths.  GBP_USD_RATE = 1 / 0.741 is the  *)
(* rational GBP_USD_NUM / GBP_USD_DEN.  round(x, n) is computed on the     *)
(* exact rational value with ties to even, as Python's round does on the   *)
(* decimal value of its argument.                                          *)
(***************************************************************************)
EXTENDS Integers, Sequences, FiniteSets, TLC

VARIABLES
    caller,          \* the function the run entered: "main", "scrape_books", "convert_prices"
    pc,              \* position of the single thread of control
    seen,            \* the pages the site has served so far, in order: [size, hasNext]
    limit,           \* scrape_books: parameter limit
    max_pages,       \* scrape_books: parameter max_pages
    books,           \* the list `books` (scrape_books' local, then main's, then convert_prices')
    page,            \* scrape_books: local `page`
    soup,            \* scrape_books: the parsed page: [size, hasNext, bad]
    j,               \* scrape_books: position of the for loop in book_elements
    failed,          \* scrape_books: the except clause ran
    trace,           \* the page fetches and sleeps scrape_books performed, in order
    target_currency, \* convert_prices: parameter target_currency
    fx,              \* the FX endpoint's answer to the last request
    usd_to_target,   \* convert_prices: local usd_to_target
    rateCalls,       \* number of calls of get_currency_rate
    k,               \* convert_prices: position of the for loop in books
    clock,           \* the wall clock, in ticks
    startClock,      \* the clock when convert_prices was entered
    inBooks,         \* the batch as it was handed to convert_prices
    invoked          \* main: the stages called so far

vars == <<caller, pc, seen, limit, max_pages, books, page, soup, j, failed,
          trace, target_currency, fx, usd_to_target, rateCalls, k, clock,
          startClock, inBooks, invoked>>

scrapeVars == <<limit, max_pages, page, soup, j, failed, trace>>
convVars   == <<target_currency, fx, usd_to_target, rateCalls, k, startClock, inBooks>>

----------------------------------------------------------------------------
(* Bounds of the model *)

MaxPageSize == 4      \* items on one catalogue page
MaxLimit == 10        \* limit of a direct call of scrape_books
MaxPagesArg == 5      \* max_pages of a direct call of scrape_books
MaxBatch == 2         \* items of a batch handed directly to convert_prices
MaxPence == 6         \* price_gbp of such an item, in pence
MaxClock == 3         \* the clock stops advancing here
TicksPerSecond == 2   \* resolution of the clock
MaxInput == 2         \* the largest count typed at main's prompt

(* Program constants *)

FALLBACK_RATE == 12928
GBP_USD_NUM == 1000
GBP_USD_DEN == 741
MainMaxPages == 5
DefaultNumBooks == 10

BASE_URL == "https://books.toscrape.com/catalogue/"
DEFAULT_CURRENCY == "KES"

----------------------------------------------------------------------------
(* Helpers *)

Min(a, b) == IF a < b THEN a ELSE b
Max(a, b) == IF a > b THEN a ELSE b

\* s[:n] of Python, for a list s and any integer n
PySliceTo(s, n) ==
    LET m == IF n >= 0 THEN Min(n, Len(s)) ELSE Max(0, Len(s) + n)
    IN  SubSeq(s, 1, m)

\* round(n / d) to an integer, ties to even (d > 0, n >= 0)
RoundDiv(n, d) ==
    LET q == n \div d
        r == n % d
    IN  IF 2 * r < d THEN q
        ELSE IF 2 * r > d THEN q + 1
        ELSE IF q % 2 = 0 THEN q ELSE q + 1

\* round(a * b / c) to an integer, ties to even, without forming a * b
\* (a, b >= 0, c > 0): a * b / c = (a \div c) * b + (a % c) * b / c
RoundMulDiv(a, b, c) ==
    LET whole == (a \div c) * b + (((a % c) * b) \div c)
        rem   == ((a % c) * b) % c
    IN  IF 2 * rem < c THEN whole
        ELSE IF 2 * rem > c THEN whole + 1
        ELSE IF whole % 2 = 0 THEN whole ELSE whole + 1

\* datetime.now().strftime("%Y-%m-%d %H:%M:%S"): the clock cut to whole seconds
FormatTime(t) == t \div TicksPerSecond

----------------------------------------------------------------------------
(* The catalogue site *)

\* What GET {BASE_URL}page-{n}.html can hold: a number of product_pod articles
\* (none on a page past the end of the catalogue) and a next link or none
Pages == [size : 0..MaxPageSize, hasNext : BOOLEAN]

\* The price text of item i of page p, in pence, and its href
PriceAt(p, i) == 5177 + 100 * p + 7 * i

HrefAt(p, i) ==
    CASE (p + i) % 3 = 0 -> <<"../../../", "index.html">>
      [] (p + i) % 3 = 1 -> <<"catalogue/", "index.html">>
      [] OTHER           -> <<"", "index.html">>

\* Lines 68-72: the href made absolute
NormalizeUrl(href) ==
    IF href[1] = "../../../" THEN <<BASE_URL, href[2]>>
    ELSE IF href[1] = "catalogue/" THEN <<BASE_URL, "catalogue/", href[2]>>
    ELSE href

\* Lines 63-78: the dict appended for item i of page p
ScrapedBook(p, i) ==
    [title |-> <<p, i>>, price_gbp |-> PriceAt(p, i), book_url |-> NormalizeUrl(HrefAt(p, i))]

----------------------------------------------------------------------------
(* scrape_books *)

\* WhileTest with the page bound off by one
WhileTest_OffByOne ==
    /\ pc = "while"
    /\ pc' = IF Len(books) < limit /\ page < max_pages THEN "fetch" ELSE "return"
    /\ UNCHANGED <<caller, seen, books, clock, invoked>>
    /\ UNCHANGED scrapeVars
    /\ UNCHANGED convVars

\* Line 43: the while condition
WhileTest ==
    /\ pc = "while"
    /\ pc' = IF Len(books) < limit /\ page <= max_pages THEN "fetch" ELSE "return"
    /\ UNCHANGED <<caller, seen, books, clock, invoked>>
    /\ UNCHANGED scrapeVars
    /\ UNCHANGED convVars

\* Lines 44-57 and 91-93: the page is requested and parsed.  The request or the
\* parse may raise; else the site serves some page, one of whose items may be
\* malformed (bad = its position, 0 when none is)
FetchPage ==
    /\ pc = "fetch"
    /\ trace' = Append(trace, [ev |-> "fetch", page |-> page, total |-> Len(books)])
    /\ \/ /\ failed' = TRUE
          /\ pc' = "return"
          /\ UNCHANGED <<seen, soup, j>>
       \/ \E served \in Pages, bad \in 0..MaxPageSize :
             /\ bad <= served.size
             /\ seen' = Append(seen, served)
             /\ soup' = [size |-> served.size, hasNext |-> served.hasNext, bad |-> bad]
             /\ j' = 1
             /\ pc' = IF served.size = 0 THEN "return" ELSE "items"
             /\ UNCHANGED failed
    /\ UNCHANGED <<caller, books, clock, invoked, limit, max_pages, page>>
    /\ UNCHANGED convVars

\* ExtractItem without the test of line 60
ExtractItem_NoLimitTest ==
    /\ pc = "items"
    /\ IF j > soup.size
       THEN /\ pc' = "next"
            /\ UNCHANGED <<books, j, failed>>
       ELSE IF j = soup.bad
       THEN /\ failed' = TRUE
            /\ pc' = "return"
            /\ UNCHANGED <<books, j>>
       ELSE /\ books' = Append(books, ScrapedBook(page, j))
            /\ j' = j + 1
            /\ UNCHANGED <<pc, failed>>
    /\ UNCHANGED <<caller, seen, clock, invoked, limit, max_pages, page, soup, trace>>
    /\ UNCHANGED convVars

\* ExtractItem with the try around the whole loop: a malformed item ends the
\* call with what earlier pages gave, the items of this page dropped
ExtractItem_DropsPage ==
    /\ pc = "items"
    /\ IF j > soup.size \/ Len(books) >= limit
       THEN /\ pc' = "next"
            /\ UNCHANGED <<books, j, failed>>
       ELSE IF j = soup.bad
       THEN /\ failed' = TRUE
            /\ pc' = "return"
            /\ books' = SubSeq(books, 1, Len(books) - (j - 1))
            /\ UNCHANGED j
       ELSE /\ books' = Append(books, ScrapedBook(page, j))
            /\ j' = j + 1
            /\ UNCHANGED <<pc, failed>>
    /\ UNCHANGED <<caller, seen, clock, invoked, limit, max_pages, page, soup, trace>>
    /\ UNCHANGED convVars

\* Lines 59-78 and 91-93: one round of the for loop over book_elements
ExtractItem ==
    /\ pc = "items"
    /\ IF j > soup.size \/ Len(books) >= limit
       THEN /\ pc' = "next"
            /\ UNCHANGED <<books, j, failed>>
       ELSE IF j = soup.bad
       THEN /\ failed' = TRUE
            /\ pc' = "return"
            /\ UNCHANGED <<books, j>>
       ELSE /\ books' = Append(books, ScrapedBook(page, j))
            /\ j' = j + 1
            /\ UNCHANGED <<pc, failed>>
    /\ UNCHANGED <<caller, seen, clock, invoked, limit, max_pages, page, soup, trace>>
    /\ UNCHANGED convVars

\* CheckNext without page += 1
CheckNext_SamePage ==
    /\ pc = "next"
    /\ page' = page
    /\ pc' = IF soup.hasNext THEN "sleep" ELSE "return"
    /\ UNCHANGED <<caller, seen, books, clock, invoked, limit, max_pages, soup, j,
                   failed, trace>>
    /\ UNCHANGED convVars

\* Lines 83-88: the next link is looked up, and page advances
CheckNext ==
    /\ pc = "next"
    /\ IF soup.hasNext
       THEN page' = page + 1 /\ pc' = "sleep"
       ELSE page' = page /\ pc' = "return"
    /\ UNCHANGED <<caller, seen, books, clock, invoked, limit, max_pages, soup, j,
                   failed, trace>>
    /\ UNCHANGED convVars

\* Line 89: time.sleep(1)
Sleep ==
    /\ pc = "sleep"
    /\ trace' = Append(trace, [ev |-> "sleep", page |-> page, total |-> Len(books)])
    /\ pc' = "while"
    /\ UNCHANGED <<caller, seen, books, clock, invoked, limit, max_pages, page, soup,
                   j, failed>>
    /\ UNCHANGED convVars

\* Line 95: return books[:limit]; the locals page, soup and the loop position
\* end with the call
ScrapeReturn ==
    /\ pc = "return"
    /\ books' = PySliceTo(books, limit)
    /\ page' = 1
    /\ soup' = [size |-> 0, hasNext |-> FALSE, bad |-> 0]
    /\ j' = 1
    /\ pc' = IF caller = "main" THEN "main_check" ELSE "done"
    /\ UNCHANGED <<caller, seen, clock, invoked, limit, max_pages, failed, trace>>
    /\ UNCHANGED convVars

ScrapeNext ==
    \/ WhileTest
    \/ FetchPage
    \/ ExtractItem
    \/ CheckNext
    \/ Sleep
    \/ ScrapeReturn

\* The values every run starts with, whatever it enters
InitCommon ==
    /\ books = <<>>
    /\ seen = <<>>
    /\ page = 1
    /\ soup = [size |-> 0, hasNext |-> FALSE, bad |-> 0]
    /\ j = 1
    /\ failed = FALSE
    /\ trace = <<>>
    /\ fx = [kind |-> "none"]
    /\ usd_to_target = 0
    /\ rateCalls = 0
    /\ k = 1
    /\ clock = 0
    /\ startClock = 0
    /\ inBooks = <<>>
    /\ invoked = {}

\* A call scrape_books(limit, max_pages): lines 40-41
ScrapeInit ==
    /\ caller = "scrape_books"
    /\ pc = "while"
    /\ limit \in 0..MaxLimit
    /\ max_pages \in 0..MaxPagesArg
    /\ target_currency = DEFAULT_CURRENCY
    /\ InitCommon

ScrapeSpec == ScrapeInit /\ [][ScrapeNext]_vars

ScrapeFairSpec == ScrapeSpec /\ WF_vars(ScrapeNext)

----------------------------------------------------------------------------
(* get_currency_rate *)

Targets == {"KES", "EUR", "XYZ"}

\* Rate tables the endpoint may serve: no entry for XYZ in any, none for EUR in some
RateTables ==
    {[c \in {"KES", "EUR"} |-> IF c = "KES" THEN 12950 ELSE 92],
     [c \in {"KES"} |-> 13010],
     [c \in {} |-> 0]}

\* What the GET of FX_URL can end in: a timeout, a network error, a body that is
\* no JSON, a JSON body without "rates", a JSON body with a rate table
FxResponses ==
    {[kind |-> "timeout"], [kind |-> "network"], [kind |-> "malformed"],
     [kind |-> "norates"]}
    \cup {[kind |-> "ok", rates |-> t] : t \in RateTables}

\* Lines 27-28, the body of the try: either it raises or it yields a value
TryRate(resp, target) ==
    IF resp.kind \in {"timeout", "network", "malformed", "norates"}
    THEN [exc |-> TRUE, val |-> 0]
    ELSE [exc |-> FALSE,
          val |-> IF target \in DOMAIN resp.rates THEN resp.rates[target]
                  ELSE FALLBACK_RATE]

\* get_currency_rate with `except requests.RequestException`: what the request
\* raises is caught, what .json() or data["rates"] raises is not
get_currency_rate_NarrowExcept(resp, target) ==
    LET body == TryRate(resp, target)
    IN  IF body.exc
        THEN [raised |-> resp.kind \in {"malformed", "norates"}, value |-> FALLBACK_RATE]
        ELSE [raised |-> FALSE, value |-> body.val]

\* Lines 26-31: except Exception catches whatever the body raises
get_currency_rate(resp, target) ==
    LET body == TryRate(resp, target)
    IN  IF body.exc
        THEN [raised |-> FALSE, value |-> FALLBACK_RATE]
        ELSE [raised |-> FALSE, value |-> body.val]

----------------------------------------------------------------------------
(* convert_prices *)

\* Line 115: round(price_gbp * GBP_USD_RATE, 2), in cents
PriceUsd(price_gbp) == RoundDiv(price_gbp * GBP_USD_NUM, GBP_USD_DEN)

\* PriceConverted computed from the rounded price_usd of line 115
PriceConverted_FromRounded(price_gbp, rate) ==
    RoundDiv(PriceUsd(price_gbp) * rate, 100)

\* Lines 109 and 112: round(price_gbp * GBP_USD_RATE * usd_to_target, 2), in
\* hundredths; the factor price_usd is the unrounded product of line 109
PriceConverted(price_gbp, rate) ==
    RoundMulDiv(price_gbp * GBP_USD_NUM, rate, GBP_USD_DEN * 100)

\* Line 119: round(GBP_USD_RATE * usd_to_target, 4), in ten-thousandths
CompositeRate(rate) == RoundDiv(100 * GBP_USD_NUM * rate, GBP_USD_DEN)

\* Lines 109-120: the dict of one book after its round of the loop, at time now
ConvertedBook(book, rate, target, now) ==
    [price_usd                     |-> PriceUsd(book.price_gbp),
     price_converted               |-> PriceConverted(book.price_gbp, rate),
     original_currency             |-> "GBP",
     target_currency               |-> target,
     conversion_rate_gbp_to_target |-> CompositeRate(rate),
     conversion_date               |-> FormatTime(now)] @@ book

\* Line 105: the rate is fetched
GetRate ==
    /\ pc = "conv_rate"
    /\ \E resp \in FxResponses :
          LET r == get_currency_rate(resp, target_currency)
          IN  /\ fx' = resp
              /\ usd_to_target' = r.value
              /\ pc' = IF r.raised THEN "crashed" ELSE "conv_loop"
    /\ rateCalls' = rateCalls + 1
    /\ k' = 1
    /\ UNCHANGED <<caller, seen, books, clock, invoked, target_currency, startClock,
                   inBooks>>
    /\ UNCHANGED scrapeVars

\* ConvertItem with the rate fetched inside the loop
ConvertItem_RatePerItem ==
    /\ pc = "conv_loop"
    /\ k <= Len(books)
    /\ \E resp \in FxResponses :
          /\ fx' = resp
          /\ usd_to_target' = get_currency_rate(resp, target_currency).value
          /\ books' = [books EXCEPT ![k] =
                          ConvertedBook(books[k], usd_to_target', target_currency, clock)]
    /\ rateCalls' = rateCalls + 1
    /\ k' = k + 1
    /\ UNCHANGED <<caller, pc, seen, clock, invoked, target_currency, startClock, inBooks>>
    /\ UNCHANGED scrapeVars

\* Lines 107-120: one round of the for loop over books
ConvertItem ==
    /\ pc = "conv_loop"
    /\ k <= Len(books)
    /\ books' = [books EXCEPT ![k] =
                    ConvertedBook(books[k], usd_to_target, target_currency, clock)]
    /\ k' = k + 1
    /\ UNCHANGED <<caller, pc, seen, clock, invoked, target_currency, fx,
                   usd_to_target, rateCalls, startClock, inBooks>>
    /\ UNCHANGED scrapeVars

\* Line 122: return books
ConvertReturn ==
    /\ pc = "conv_loop"
    /\ k > Len(books)
    /\ pc' = IF caller = "main" THEN "display" ELSE "done"
    /\ UNCHANGED <<caller, seen, books, clock, invoked>>
    /\ UNCHANGED scrapeVars
    /\ UNCHANGED convVars

\* The wall clock advances while convert_prices runs
Tick ==
    /\ pc \in {"conv_rate", "conv_loop"}
    /\ clock < MaxClock
    /\ clock' = clock + 1
    /\ UNCHANGED <<caller, pc, seen, books, invoked>>
    /\ UNCHANGED scrapeVars
    /\ UNCHANGED convVars

ConvNext ==
    \/ GetRate
    \/ ConvertItem
    \/ ConvertReturn
    \/ Tick

BatchItems ==
    {[title |-> <<0, 0>>, price_gbp |-> p, book_url |-> <<"", "index.html">>] :
        p \in 1..MaxPence}

Batches == UNION {[1..n -> BatchItems] : n \in 0..MaxBatch}

\* A call convert_prices(books, target_currency)
ConvInit ==
    /\ caller = "convert_prices"
    /\ pc = "conv_rate"
    /\ limit = 0
    /\ max_pages = 0
    /\ target_currency \in Targets
    /\ seen = <<>>
    /\ page = 1
    /\ soup = [size |-> 0, hasNext |-> FALSE, bad |-> 0]
    /\ j = 1
    /\ failed = FALSE
    /\ trace = <<>>
    /\ fx = [kind |-> "none"]
    /\ usd_to_target = 0
    /\ rateCalls = 0
    /\ k = 1
    /\ clock \in 0..(TicksPerSecond - 1)
    /\ startClock = clock
    /\ books \in Batches
    /\ inBooks = books
    /\ invoked = {}

ConvSpec == ConvInit /\ [][ConvNext]_vars

----------------------------------------------------------------------------
(* main *)

\* What the user can type at the first prompt: nothing, something that is no
\* integer, or an integer
CountInputs ==
    {[kind |-> "blank", val |-> 0], [kind |-> "text", val |-> 0]}
    \cup {[kind |-> "int", val |-> n] : n \in (-1)..MaxInput}

\* Lines 203-207: int(input(...) or "10"), 10 on ValueError
ParseCount(inp) ==
    IF inp.kind = "int" THEN inp.val ELSE DefaultNumBooks

CurrencyInputs == {"", " ", " eur"}

\* str.strip().upper() on the inputs above
StripUpper(str) ==
    CASE str = " eur" -> "EUR"
      [] str = " "    -> ""
      [] OTHER        -> str

\* Lines 209-211: the typed code, or DEFAULT_CURRENCY when it is empty
ParseCurrency(str) ==
    IF StripUpper(str) = "" THEN DEFAULT_CURRENCY ELSE StripUpper(str)

\* Lines 203-215: the prompts, then the call scrape_books(limit=num_books, max_pages=5)
MainInput ==
    /\ pc = "main_input"
    /\ \E cnt \in CountInputs, cur \in CurrencyInputs :
          /\ limit' = ParseCount(cnt)
          /\ target_currency' = ParseCurrency(cur)
    /\ max_pages' = MainMaxPages
    /\ invoked' = invoked \cup {"scrape_books"}
    /\ pc' = "while"
    /\ UNCHANGED <<caller, seen, books, clock, page, soup, j, failed, trace, fx,
                   usd_to_target, rateCalls, k, startClock, inBooks>>

\* MainCheck without the test of line 217
MainCheck_NoAbort ==
    /\ pc = "main_check"
    /\ pc' = "conv_rate"
    /\ invoked' = invoked \cup {"convert_prices"}
    /\ startClock' = clock
    /\ inBooks' = books
    /\ UNCHANGED <<caller, seen, books, clock, target_currency, fx, usd_to_target,
                   rateCalls, k>>
    /\ UNCHANGED scrapeVars

\* Lines 217-224: the run ends when nothing was scraped, else convert_prices is called
MainCheck ==
    /\ pc = "main_check"
    /\ IF books = <<>>
       THEN /\ pc' = "aborted"
            /\ UNCHANGED <<invoked, startClock, inBooks>>
       ELSE /\ pc' = "conv_rate"
            /\ invoked' = invoked \cup {"convert_prices"}
            /\ startClock' = clock
            /\ inBooks' = books
    /\ UNCHANGED <<caller, seen, books, clock, target_currency, fx, usd_to_target,
                   rateCalls, k>>
    /\ UNCHANGED scrapeVars

\* Line 227: display_table(books)
DisplayTable ==
    /\ pc = "display"
    /\ invoked' = invoked \cup {"display_table"}
    /\ pc' = "save"
    /\ UNCHANGED <<caller, seen, books, clock>>
    /\ UNCHANGED scrapeVars
    /\ UNCHANGED convVars

\* Lines 230-232: save_csv(books, filename)
SaveCsv ==
    /\ pc = "save"
    /\ invoked' = invoked \cup {"save_csv"}
    /\ pc' = "ask_plot"
    /\ UNCHANGED <<caller, seen, books, clock>>
    /\ UNCHANGED scrapeVars
    /\ UNCHANGED convVars

\* Lines 235-237 and 159-163: the chart is drawn unless the user types n
PlotPrices ==
    /\ pc = "ask_plot"
    /\ \E plot_choice \in {"", "y", "n"} :
          invoked' = IF plot_choice # "n" THEN invoked \cup {"plot_prices"} ELSE invoked
    /\ pc' = "done"
    /\ UNCHANGED <<caller, seen, books, clock>>
    /\ UNCHANGED scrapeVars
    /\ UNCHANGED convVars

Next ==
    \/ MainInput
    \/ WhileTest
    \/ FetchPage
    \/ ExtractItem
    \/ CheckNext
    \/ Sleep
    \/ ScrapeReturn
    \/ MainCheck
    \/ GetRate
    \/ ConvertItem
    \/ ConvertReturn
    \/ DisplayTable
    \/ SaveCsv
    \/ PlotPrices

\* A run of main.  The clock is read by convert_prices alone; its advance is
\* part of ConvNext, and a run of main is followed with the clock standing
Init ==
    /\ caller = "main"
    /\ pc = "main_input"
    /\ limit = 0
    /\ max_pages = 0
    /\ target_currency = DEFAULT_CURRENCY
    /\ InitCommon

Spec == Init /\ [][Next]_vars

----------------------------------------------------------------------------
(* Properties of scrape_books, checked under ScrapeSpec *)

\* The items found on page p when it holds n of them
ItemsOf(p, n) == [i \in 1..n |-> ScrapedBook(p, i)]

\* The items of the first n pages served, in page order
RECURSIVE AllItems(_, _)
AllItems(pages, n) ==
    IF n = 0 THEN <<>>
    ELSE AllItems(pages, n - 1) \o ItemsOf(n, pages[n].size)

\* The number of items on the first n pages served
RECURSIVE TotalItems(_, _)
TotalItems(pages, n) ==
    IF n = 0 THEN 0 ELSE TotalItems(pages, n - 1) + pages[n].size

Fetches == SelectSeq(trace, LAMBDA e : e.ev = "fetch")

\* C1: at every point of the loop the running total is at most limit, and the
\* list returned has between 0 and limit items
C1_NeverMoreThanLimit ==
    /\ Len(books) <= limit
    /\ pc = "done" => Len(books) \in 0..limit

\* C1's case: a page held more items than limit left room for, and the call
\* returned exactly limit items
C1_Witness ==
    /\ pc = "done"
    /\ limit > 0
    /\ Len(books) = limit
    /\ TotalItems(seen, Len(seen)) > limit

\* C2: when no read failed, the result is the items of the pages served, in page
\* order, cut to limit (so only the last contributing page is truncated); and
\* when every page served was non-empty with a next link, the loop went on
\* until limit was reached or max_pages pages were consulted, so the result has
\* min(limit, total_available) items, total_available counting pages 1..max_pages
C2_ExactCount ==
    (pc = "done" /\ ~failed) =>
        /\ books = PySliceTo(AllItems(seen, Len(seen)), limit)
        /\ (\A p \in 1..Len(seen) : seen[p].size > 0 /\ seen[p].hasNext) =>
              /\ Len(books) = Min(limit, TotalItems(seen, Len(seen)))
              /\ Len(books) < limit => Len(seen) = max_pages

\* C2's case: limit 10, max_pages 5, three pages of 4 items, no page after the
\* third: 4 + 4 + 2 items come back
C2_Witness ==
    /\ pc = "done"
    /\ ~failed
    /\ limit = 10
    /\ max_pages = 5
    /\ seen = <<[size |-> 4, hasNext |-> TRUE], [size |-> 4, hasNext |-> TRUE],
                [size |-> 4, hasNext |-> FALSE]>>
    /\ Len(books) = 10
    /\ books[4].title = <<1, 4>>
    /\ books[8].title = <<2, 4>>
    /\ books[10].title = <<3, 2>>

\* C4: every sleep comes right after a page fetch and is followed by another
\* page fetch before scrape_books returns: none before the first fetch, none
\* after the last
C4_DelayOnlyBetweenFetches ==
    \A i \in 1..Len(trace) :
        trace[i].ev = "sleep" =>
            /\ i > 1
            /\ trace[i - 1].ev = "fetch"
            /\ i < Len(trace) => trace[i + 1].ev = "fetch"
            /\ pc = "done" => i < Len(trace)

\* C7: the step on which a read or an extraction fails leaves the collected
\* items as they are and leads to the return; from then on no page is fetched,
\* the items stay as they are, and control only returns
C7_FailureStopsAndKeeps ==
    [][/\ (~failed /\ failed') => (pc' = "return" /\ books' = books)
       /\ failed => /\ failed'
                    /\ books' = books
                    /\ Fetches' = Fetches
                    /\ pc' \in {"return", "done"}]_vars

\* C7's case: an item in the middle of a page was malformed, and the call
\* returned the items before it, this page's first ones among them
C7_Witness ==
    /\ pc = "done"
    /\ failed
    /\ Len(seen) > 1
    /\ Len(books) > 0
    /\ Len(books) < limit
    /\ books[Len(books)].title[1] = Len(seen)
    /\ books[Len(books)].title[2] < seen[Len(seen)].size

\* The safety half of C9
C9_FetchOrder ==
    /\ \A i \in 1..Len(Fetches) :
          /\ Fetches[i].page = i
          /\ Fetches[i].total < limit
          /\ i > 1 => /\ i - 1 <= Len(seen)
                      /\ seen[i - 1].size > 0
                      /\ seen[i - 1].hasNext
    /\ Len(Fetches) <= max_pages

\* C9: pages are fetched as 1, 2, 3, ... without a gap or a repeat, at most
\* max_pages of them, none once the running total has reached limit, none after
\* an empty page or a page without a next link; and the call returns
C9_OrderedBoundedTerminates ==
    /\ []C9_FetchOrder
    /\ <>(pc = "done")

\* C9's case: all max_pages pages were fetched, and the call returned short of limit
C9_Witness ==
    /\ pc = "done"
    /\ max_pages = MaxPagesArg
    /\ Len(Fetches) = max_pages
    /\ Len(books) < limit
    /\ ~failed

----------------------------------------------------------------------------
(* Properties of get_currency_rate and convert_prices, checked under ConvSpec *)

Abs(x) == IF x < 0 THEN -x ELSE x

\* The books whose round of the loop has run
Converted == 1..(IF pc \in {"conv_loop", "done"} THEN k - 1 ELSE 0)

\* C3: get_currency_rate raises nothing; when the fetch or the parse fails it
\* returns FALLBACK_RATE, when the table lacks the target it returns
\* FALLBACK_RATE, and else it returns the table's entry
C3_RateOrFallback ==
    /\ pc # "crashed"
    /\ rateCalls > 0 =>
          usd_to_target =
              IF fx.kind # "ok" THEN FALLBACK_RATE
              ELSE IF target_currency \notin DOMAIN fx.rates THEN FALLBACK_RATE
              ELSE fx.rates[target_currency]

\* C3's case: the body came without "rates", and the call gave the fallback
C3_Witness ==
    /\ rateCalls = 1
    /\ fx.kind = "norates"
    /\ usd_to_target = FALLBACK_RATE
    /\ pc = "done"

\* C5: when convert_prices has returned, every item carries the time the call
\* started at
C5_OneTimestamp ==
    pc = "done" =>
        \A i \in 1..Len(books) : books[i].conversion_date = FormatTime(startClock)

\* C8 as claimed: price_converted is round(price_usd * rate, 2) of the stored,
\* rounded price_usd
C8_FromRoundedUsd ==
    \A i \in Converted :
        /\ 2 * Abs(books[i].price_usd * GBP_USD_DEN - books[i].price_gbp * GBP_USD_NUM)
              <= GBP_USD_DEN
        /\ books[i].price_converted = RoundDiv(books[i].price_usd * usd_to_target, 100)

\* C8 as amended: price_usd is price_gbp * GBP_USD_RATE rounded to 2 decimals,
\* and price_converted is the exact product price_gbp * GBP_USD_RATE * rate
\* rounded to 2 decimals: it comes from the unrounded USD amount
C8_FromExactProduct ==
    \A i \in Converted :
        /\ 2 * Abs(books[i].price_usd * GBP_USD_DEN - books[i].price_gbp * GBP_USD_NUM)
              <= GBP_USD_DEN
        /\ 2 * Abs(books[i].price_converted * GBP_USD_DEN * 100
                   - books[i].price_gbp * GBP_USD_NUM * usd_to_target)
              <= GBP_USD_DEN * 100

\* C8's case: a converted item whose price_converted is not what the rounded
\* price_usd times the rate gives
C8_Witness ==
    /\ pc = "done"
    /\ Len(books) > 0
    /\ usd_to_target = FALLBACK_RATE
    /\ books[1].price_converted # RoundDiv(books[1].price_usd * usd_to_target, 100)

\* C10: the rate provider is consulted once per call, before any item is
\* processed and whatever the batch size; every processed item carries the
\* target currency and the composite rate of that one rate, and was converted
\* with it; titles, source prices and URLs are as they were handed in
C10_OneRateFrame ==
    /\ pc = "conv_rate" => (rateCalls = 0 /\ books = inBooks)
    /\ pc \in {"conv_loop", "done"} => rateCalls = 1
    /\ \A i \in Converted :
          /\ books[i].target_currency = target_currency
          /\ books[i].conversion_rate_gbp_to_target = CompositeRate(usd_to_target)
          /\ books[i].price_converted = PriceConverted(books[i].price_gbp, usd_to_target)
          /\ \A h \in Converted :
                books[h].conversion_rate_gbp_to_target
                    = books[i].conversion_rate_gbp_to_target
    /\ Len(books) = Len(inBooks)
    /\ \A i \in 1..Len(books) :
          /\ books[i].title = inBooks[i].title
          /\ books[i].price_gbp = inBooks[i].price_gbp
          /\ books[i].book_url = inBooks[i].book_url

\* C10's case: a batch of two different items was converted with a rate from the table
C10_Witness ==
    /\ pc = "done"
    /\ Len(books) = 2
    /\ books[1].price_gbp # books[2].price_gbp
    /\ fx.kind = "ok"
    /\ usd_to_target # FALLBACK_RATE
    /\ rateCalls = 1

----------------------------------------------------------------------------
(* Properties of main, checked under Spec *)

Stages == {"convert_prices", "display_table", "save_csv", "plot_prices"}

\* C6: a run that scraped nothing ends at line 219 with no rate fetched and no
\* stage called; a stage is only ever called, and the rate only ever fetched,
\* with a non-empty batch; and a run ends nowhere else before it has converted,
\* displayed and saved
C6_AbortOnlyWhenEmpty ==
    /\ pc = "aborted" => (books = <<>> /\ rateCalls = 0 /\ invoked \cap Stages = {})
    /\ (rateCalls > 0 \/ invoked \cap Stages # {}) =>
          (books # <<>> /\ "convert_prices" \in invoked)
    /\ pc \in {"conv_rate", "conv_loop", "display", "save", "ask_plot"} => books # <<>>
    /\ pc = "done" => (books # <<>> /\ Stages \ {"plot_prices"} \subseteq invoked)
    /\ pc # "crashed"

\* C6's case: pages were read, nothing was scraped, the run aborted
C6_Witness ==
    /\ pc = "aborted"
    /\ limit > 0
    /\ Len(trace) > 0
    /\ books = <<>>

====
